---- MODULE Spec2Model ----
(***************************************************************************)
(* Watch-mode coordinator of rustlings (src/watch/state.rs).               *)
(*                                                                         *)
(* Two threads are modelled:                                               *)
(*   - the foreground coordinator, which takes WatchEvents from the event  *)
(*     channel and calls the operations of WatchState;                     *)
(*   - the background terminal_event_handler thread spawned by             *)
(*     WatchState::build, which reads the terminal and sends WatchEvents.  *)
(* They share the event channel (unbounded mpsc, bg -> fg), the zero       *)
(* capacity unpause channel (fg -> bg) and the flag behind InputPauseGuard.*)
(* The outer event loop, the terminal_event_handler, InputPauseGuard and   *)
(* AppState are not part of state.rs; they are modelled from their use in  *)
(* state.rs and from the specification.                                    *)
(***************************************************************************)
EXTENDS Naturals, Integers, Sequences, FiniteSets, TLC

\* ------------------------------------------------------------------ bounds

\* Number of exercises known to the progress tracker.
NumExercises == 2
\* Capacity given to the (really unbounded) event channel.
MaxQueue == 1
\* Largest terminal width reported by a resize.
MaxWidth == 2
\* Most non-answer bytes typed into one reset confirmation prompt.
MaxDiscard == 2
\* Most keys waiting unread in the input buffer of the terminal.
MaxTyped == 2

Exercises == 0 .. (NumExercises - 1)
Widths == 1 .. MaxWidth

\* ------------------------------------------------------------------ values

\* Bytes a user can type on standard input.
Bytes == {"n", "N", "y", "Y", "h", "l", "c", "x", "r", "q", "3"}
\* Bytes a user types ahead, while no thread reads the terminal: one for
\* each way a later read treats a byte (declines a reset and asks for the
\* next exercise, confirms a reset, asks for the hint, asks for a reset, is
\* mapped to nothing).
TypedBytes == {"n", "y", "h", "r", "x"}

NoPath == << >>
SolutionPath(ind) == << "solutions", ind >>

\* enum DoneStatus
Pending == [tag |-> "Pending", path |-> NoPath]
DoneWithoutSolution == [tag |-> "DoneWithoutSolution", path |-> NoPath]
DoneWithSolution(path) == [tag |-> "DoneWithSolution", path |-> path]

\* WatchEvent values carried by the event channel. arg is the exercise index
\* of a FileChange and the width of a TerminalResize; for an InputEvent it
\* records whether its key was pressed while the pause guard was held (1) or
\* not (0).
Event(type, arg) == [type |-> type, arg |-> arg]

\* A key press: the byte, and whether the pause guard was held when the key
\* was pressed.
Key(byte, guarded) == [byte |-> byte, guarded |-> guarded]

\* Output buffer contents: the capture of a run of exercise ind.
NoOutput == << >>
Captured(ind, success) == << ind, success >>

VARIABLES
    \* WatchState
    output, show_hint, done_status, manual_run, term_width,
    \* AppState (progress tracker)
    current_exercise_ind, done, n_done,
    \* foreground coordinator: position, and where a run in progress returns
    fg_pc, fg_ret,
    \* background thread position, InputPauseGuard flag, event channel
    bg_pc, exercise_running, events,
    \* keys pressed while no thread was reading the terminal, still unread
    typed,
    \* bytes that io::stdin() has taken from the terminal into its buffer and
    \* not handed out yet
    stdin_buf,
    \* observation of the handling of the current (or last) event
    op,
    \* outcome of the most recent exercise execution
    last_run

watch_vars == << output, show_hint, done_status, manual_run, term_width >>
app_vars == << current_exercise_ind, done, n_done >>
vars == << output, show_hint, done_status, manual_run, term_width,
           current_exercise_ind, done, n_done, fg_pc, fg_ret,
           bg_pc, exercise_running, events, typed, stdin_buf, op,
           last_run >>

\* -------------------------------------------------------------- render

\* A show_prompt that offers next in every state.
ShowPromptAlwaysNext(status, manual, hint) ==
    << "next" >>
    \o (IF manual THEN << "run" >> ELSE << >>)
    \o (IF ~hint THEN << "hint" >> ELSE << >>)
    \o << "list", "check all", "reset", "quit" >>

\* Lines 167-214, show_prompt: the option tokens written, in order, for a
\* DoneStatus, the manual-run flag and the hint flag (styling left out).
ShowPrompt(status, manual, hint) ==
    (IF status # Pending THEN << "next" >> ELSE << >>)
    \o (IF manual THEN << "run" >> ELSE << >>)
    \o (IF ~hint THEN << "hint" >> ELSE << >>)
    \o << "list", "check all", "reset", "quit" >>

\* Lines 216-271, render: what one call paints, from the fields it reads: the
\* output buffer, the hint (if shown), the done banner with the solution link
\* (if not pending), the progress bar (exercises done, total, width), the
\* link to the current exercise, the prompt.
FrameOf(out, hint, status, ndone, width, ind, manual) ==
    [output |-> out, hint |-> hint, banner |-> status,
     progress |-> << ndone, NumExercises, width >>, exercise |-> ind,
     prompt |-> ShowPrompt(status, manual, hint)]

\* What render paints in the current state.
Frame ==
    FrameOf(output, show_hint, done_status, n_done, term_width,
            current_exercise_ind, manual_run)

\* Nothing painted yet.
NoFrame == FrameOf(NoOutput, FALSE, Pending, 0, 0, 0, FALSE)

\* ------------------------------------------------------- observation record

\* What the handling of one event has done so far: the operation called, the
\* ExercisesProgress it returned, screen redraws, exercise runs started, file
\* reverts, prompts written, resume signals delivered, bytes discarded by the
\* confirmation loop, the answer byte it accepted, whether the input thread
\* dropped a key press while the pause guard was held, whether the tracker's
\* check of all exercises completed and the first failing exercise it
\* reported (a set: empty for None), whether the final completion message
\* was rendered, what the last redraw painted, the call whose I/O error the
\* operation returned ("" for none), and assignments made to done_status.
NewOp(name) ==
    [name |-> name, ret |-> "", renders |-> 0, runs |-> 0, reverts |-> 0,
     prompts |-> 0, resumes |-> 0, discarded |-> 0, answer |-> "",
     ignored |-> FALSE, checked |-> FALSE, first_fail |-> {},
     final_message |-> FALSE, frame |-> NoFrame, err |-> "",
     status_updates |-> 0]

NoRun == [ran |-> FALSE, ind |-> 0, success |-> FALSE, path |-> NoPath]

\* ------------------------------------------------------------ AppState

Count(flags) == Cardinality({i \in Exercises : flags[i]})

Min(S) == CHOOSE x \in S : \A y \in S : x <= y

\* AppState::set_pending: clear the done flag of ind, keeping the count.
SetPendingDone(ind) == [done EXCEPT ![ind] = FALSE]
SetPendingNDone(ind) == IF done[ind] THEN n_done - 1 ELSE n_done

\* AppState::next_pending_exercise_ind, on the flags as they are after the
\* current exercise was marked done: first pending exercise after the current
\* one, else the first pending one before it.
NextPending(flags) ==
    LET after == {i \in Exercises : i > current_exercise_ind /\ ~flags[i]}
        before == {i \in Exercises : i < current_exercise_ind /\ ~flags[i]}
    IN  IF after # {} THEN {Min(after)}
        ELSE IF before # {} THEN {Min(before)}
        ELSE {}

\* AppState::check_all_exercises: run every exercise, record each result in
\* its done flag, report the first failing one. fails is the set of exercises
\* found failing.
CheckAllDone(fails) == [i \in Exercises |-> i \notin fails]

\* ------------------------------------------------------------ Init

\* WatchState::build (lines 41-71): the fields as constructed, the background
\* thread spawned and reading, nothing sent yet. The tracker holds whatever
\* progress was persisted.
Init ==
    /\ output = NoOutput
    /\ show_hint = FALSE
    /\ done_status = Pending
    /\ manual_run \in BOOLEAN
    /\ term_width \in Widths
    /\ current_exercise_ind \in Exercises
    /\ done \in [Exercises -> BOOLEAN]
    /\ n_done = Count(done)
    /\ fg_pc = "idle"
    /\ fg_ret = "idle"
    /\ bg_pc = "read"
    /\ exercise_running = FALSE
    /\ events = << >>
    /\ typed = << >>
    /\ stdin_buf = << >>
    /\ op = NewOp("build")
    /\ last_run = NoRun

\* ------------------------------------------------------------ helpers

\* The event loop is blocked in recv on the event channel and an event of
\* this type is next.
Receives(type) ==
    /\ fg_pc = "idle"
    /\ events # << >>
    /\ Head(events).type = type

\* A pause guard that only the normal return of run_current_exercise
\* releases: an early return leaves the flag as it is.
InputPauseGuardLeakedOnError(ok) == ~ok /\ exercise_running

\* Lines 75 and 106: the guard is bound to a local of run_current_exercise
\* and so dropped when the function returns, by its last line (ok) or by any
\* `?` before it; dropping it clears the flag. The flag after the return.
InputPauseGuardAfterReturn(ok) == FALSE

\* The session ends: the event loop returns, the process exits and takes the
\* background thread with it; both channels and the events still queued are
\* dropped. A run_current_exercise still on the stack has returned on the way.
EndSession(how, o) ==
    /\ fg_pc' = how
    /\ fg_ret' = "idle"
    /\ exercise_running' = InputPauseGuardAfterReturn(how # "exited_err")
    /\ bg_pc' = "exited"
    /\ events' = << >>
    /\ op' = o

\* An operation returns the Err of the call named, which the event loop
\* propagates.
FailWith(o, call) == EndSession("exited_err", [o EXCEPT !.err = call])

\* The foreground thread moves on to pc with the event channel holding evs;
\* the background thread is left alone.
GoTo(pc, ret, o, evs) ==
    /\ fg_pc' = pc
    /\ fg_ret' = ret
    /\ op' = o
    /\ events' = evs
    /\ UNCHANGED bg_pc

\* WatchState::render paints the screen and changes no field; frame is what
\* it paints from the fields as they are at the call.
Rendered(o, frame) == [o EXCEPT !.renders = @ + 1, !.frame = frame]

\* ------------------------------------------------ run_current_exercise

\* Line 75: the guard is taken before anything else in run_current_exercise.
ScopedPauseAtRunStart == TRUE

\* A run_current_exercise that looks at the reference solution before it
\* looks at the result of the run.
RunDoneStatusSolutionFirst(success, solution_path) ==
    IF solution_path # NoPath
    THEN DoneWithSolution(solution_path)
    ELSE IF success THEN DoneWithoutSolution ELSE Pending

\* Lines 90-102: the DoneStatus a finished run computes from the execution
\* result and the tracker's answer about a reference solution.
RunDoneStatus(success, solution_path) ==
    IF success
    THEN IF solution_path # NoPath
         THEN DoneWithSolution(solution_path)
         ELSE DoneWithoutSolution
    ELSE Pending

\* A run_current_exercise that redraws only after a passing run.
RunRendersOnSuccess(success) == success

\* Line 104: render is called after the if/else on the result, so whatever
\* the result was.
RunRenders(success) == TRUE

\* A run_current_exercise that leaves the hint flag alone.
HintKeptAtRunStart == show_hint

\* Line 77: the hint flag once a run has started.
HintAtRunStart == FALSE

\* Lines 73-83, the start of run_current_exercise: take the pause guard,
\* clear the hint flag, write the status line; the exercise then executes. A
\* failed write returns early and drops the guard. ret is where the call
\* returns to, evs the event channel as the caller leaves it.
StartRun(o, ret, evs) ==
    /\ show_hint' = HintAtRunStart
    /\ \E write_ok \in BOOLEAN :
         IF write_ok
         THEN /\ GoTo("running", ret, [o EXCEPT !.runs = @ + 1], evs)
              /\ exercise_running' = ScopedPauseAtRunStart
         ELSE FailWith([o EXCEPT !.runs = @ + 1], "writeln")

\* The event loop calls run_current_exercise for a Run event.
RunCurrentExercise ==
    /\ Receives("Run")
    /\ UNCHANGED << typed, stdin_buf >>
    /\ StartRun(NewOp("run_current_exercise"), "idle", Tail(events))
    /\ UNCHANGED << output, done_status, manual_run, term_width, app_vars,
                    last_run >>

\* Lines 85-106, the rest of run_current_exercise: the exercise has executed;
\* bring DoneStatus and the tracker up to date, render, return (dropping the
\* guard). fault names the collaborator call that returns an I/O error, if
\* any.
RunFinish ==
    /\ fg_pc = "running"
    /\ UNCHANGED << typed, stdin_buf >>
    /\ \E success \in BOOLEAN :
       \E solution_path \in {NoPath, SolutionPath(current_exercise_ind)} :
       \E fault \in {"none", "run_exercise", "render",
                     IF success THEN "current_solution_path"
                     ELSE "set_pending"} :
         LET ran == [ran |-> TRUE, ind |-> current_exercise_ind,
                     success |-> success,
                     path |-> IF success THEN solution_path ELSE NoPath]
             captured == Captured(current_exercise_ind, success)
             quiet == [op EXCEPT !.ignored = FALSE]
             updated == [quiet EXCEPT !.status_updates = @ + 1]
             status == RunDoneStatus(success, solution_path)
             ndone == IF success THEN n_done
                      ELSE SetPendingNDone(current_exercise_ind)
             frame == FrameOf(captured, show_hint, status, ndone, term_width,
                              current_exercise_ind, manual_run)
         IN
         \/ \* run_exercise returns Err, with the buffer as it was, cleared,
            \* or with what was captured so far
            /\ fault = "run_exercise"
            /\ solution_path = NoPath
            /\ FailWith(quiet, fault)
            /\ output' \in {output, NoOutput, captured}
            /\ UNCHANGED << done_status, done, n_done, last_run >>
         \/ /\ fault \in {"current_solution_path", "set_pending"}
            /\ solution_path = NoPath
            /\ FailWith(quiet, fault)
            /\ output' = captured
            /\ last_run' = ran
            /\ UNCHANGED << done_status, done, n_done >>
         \/ /\ fault \in {"none", "render"}
            /\ IF fault = "render"
               THEN /\ RunRenders(success)
                    /\ FailWith(updated, fault)
               ELSE /\ GoTo(fg_ret, "idle",
                            IF RunRenders(success)
                            THEN Rendered(updated, frame) ELSE updated,
                            events)
                    /\ exercise_running' = InputPauseGuardAfterReturn(TRUE)
            /\ output' = captured
            /\ last_run' = ran
            /\ done_status' = status
            /\ done' = IF success THEN done
                       ELSE SetPendingDone(current_exercise_ind)
            /\ n_done' = ndone
    /\ UNCHANGED << show_hint, manual_run, term_width, current_exercise_ind >>

\* ------------------------------------------------------ reset_exercise

\* A confirmation loop that takes every byte but n and N for a yes.
ResetAnswerDefaultYes(byte) ==
    IF byte \in {"n", "N"} THEN "decline" ELSE "confirm"

\* Lines 124-135: what the confirmation loop makes of one byte.
ResetAnswer(byte) ==
    IF byte \in {"y", "Y"} THEN "confirm"
    ELSE IF byte \in {"n", "N"} THEN "decline"
    ELSE "continue"

\* A confirmed reset that runs the exercise in every mode.
ResetAlwaysRuns == TRUE

\* Line 129: a confirmed reset runs the exercise itself only in manual-run
\* mode (the file watcher reruns it otherwise).
ResetRunsExercise == manual_run

\* A reset_exercise that returns from the confirmation loop without sending.
ResetReturnsAfterAnswer == "idle"

\* Lines 137-141: where the confirmation loop goes once it has its answer.
ResetAfterAnswer == "reset_send"

\* The event loop calls reset_exercise for a Reset event. Lines 109-114:
\* clear the screen and write the prompt; the confirmation loop follows.
ResetExercise ==
    /\ Receives("Reset")
    /\ UNCHANGED << typed, stdin_buf >>
    /\ \E write_ok \in BOOLEAN :
         IF write_ok
         THEN /\ GoTo("reset_read", "idle",
                      [NewOp("reset_exercise") EXCEPT !.prompts = 1],
                      Tail(events))
              /\ UNCHANGED exercise_running
         ELSE FailWith(NewOp("reset_exercise"), "write_all")
    /\ UNCHANGED << watch_vars, app_vars, last_run >>

\* Lines 116-139: one pass of the confirmation loop: a blocking read of one
\* byte from standard input by the foreground thread, then the match on it.
\* io::stdin() is buffered: read_exact hands out the oldest byte of its
\* buffer; when the buffer is empty it first takes every key waiting unread
\* in the terminal, or, when there is none, the key the user presses next.
\* The bytes it does not hand out stay in the buffer, out of the reach of the
\* background thread, for the reads of this or a later reset_exercise.
ResetRead ==
    /\ fg_pc = "reset_read"
    /\ \/ \* read_exact fails
          /\ FailWith(op, "read_exact")
          /\ UNCHANGED << show_hint, typed, stdin_buf >>
       \/ \E byte \in (IF stdin_buf # << >> THEN {Head(stdin_buf)}
                       ELSE IF typed # << >> THEN {Head(typed).byte}
                       ELSE Bytes),
             call_ok \in BOOLEAN :
            LET answered == [op EXCEPT !.answer = byte]
            IN
            /\ stdin_buf' =
                 IF stdin_buf # << >> THEN Tail(stdin_buf)
                 ELSE [i \in 1 .. (Len(typed) - 1) |-> typed[i + 1].byte]
            /\ typed' = IF stdin_buf # << >> THEN typed ELSE << >>
            /\ CASE ResetAnswer(byte) = "confirm" ->
                   \* reset_current_exercise()?, then the run in manual mode
                   IF ~call_ok
                   THEN /\ FailWith(answered, "reset_current_exercise")
                        /\ UNCHANGED show_hint
                   ELSE IF ResetRunsExercise
                   THEN StartRun([answered EXCEPT !.reverts = @ + 1],
                                 ResetAfterAnswer, events)
                   ELSE /\ GoTo(ResetAfterAnswer, "idle",
                                [answered EXCEPT !.reverts = @ + 1], events)
                        /\ UNCHANGED << show_hint, exercise_running >>
              [] ResetAnswer(byte) = "decline" ->
                   \* self.render(stdout)?
                   IF ~call_ok
                   THEN /\ FailWith(answered, "render")
                        /\ UNCHANGED show_hint
                   ELSE /\ GoTo(ResetAfterAnswer, "idle",
                                Rendered(answered, Frame), events)
                        /\ UNCHANGED << show_hint, exercise_running >>
              [] OTHER ->
                   \* continue: read the next byte
                   /\ call_ok
                   /\ op.discarded < MaxDiscard
                   /\ GoTo("reset_read", "idle",
                           [op EXCEPT !.discarded = @ + 1], events)
                   /\ UNCHANGED << show_hint, exercise_running >>
    /\ UNCHANGED << output, done_status, manual_run, term_width, app_vars,
                    last_run >>

\* A reset_exercise that sends the resume signal twice: the second send finds
\* no receiver waiting.
ResetSendTwice ==
    /\ fg_pc = "reset_send"
    /\ UNCHANGED << typed, stdin_buf >>
    /\ bg_pc = "recv"
    /\ bg_pc' = "read"
    /\ op' = [op EXCEPT !.resumes = @ + 1]
    /\ UNCHANGED << watch_vars, app_vars, fg_pc, fg_ret, exercise_running,
                    events, last_run >>

\* A reset_exercise that sends the resume signal before its confirmation loop
\* has an answer.
ResetSendBeforeAnswer ==
    /\ fg_pc = "reset_read"
    /\ UNCHANGED << typed, stdin_buf >>
    /\ bg_pc = "recv"
    /\ bg_pc' = "read"
    /\ op' = [op EXCEPT !.resumes = @ + 1]
    /\ UNCHANGED << watch_vars, app_vars, fg_pc, fg_ret, exercise_running,
                    events, last_run >>

\* Line 141: the send on the zero capacity unpause channel. It completes only
\* together with the recv of the background thread, which then goes back to
\* reading the terminal. reset_exercise returns; what its confirmation loop
\* read is forgotten.
ResetSend ==
    /\ fg_pc = "reset_send"
    /\ UNCHANGED << typed, stdin_buf >>
    /\ bg_pc = "recv"
    /\ bg_pc' = "read"
    /\ fg_pc' = "idle"
    /\ op' = [op EXCEPT !.resumes = @ + 1, !.answer = "", !.discarded = 0]
    /\ UNCHANGED << watch_vars, app_vars, fg_ret, exercise_running, events,
                    last_run >>

\* -------------------------------------------------- handle_file_change

\* A handle_file_change that reruns on the change of any exercise file.
FileChangeNeverIgnored(exercise_ind) == FALSE

\* Line 151: a change of another exercise than the current one is ignored.
FileChangeIgnored(exercise_ind) == current_exercise_ind # exercise_ind

\* Lines 146-156, called by the event loop for a FileChange event.
HandleFileChange ==
    /\ Receives("FileChange")
    /\ UNCHANGED << typed, stdin_buf >>
    /\ IF FileChangeIgnored(Head(events).arg)
       THEN /\ GoTo("idle", "idle", NewOp("handle_file_change"), Tail(events))
            /\ UNCHANGED << show_hint, exercise_running >>
       ELSE StartRun(NewOp("handle_file_change"), "idle", Tail(events))
    /\ UNCHANGED << output, done_status, manual_run, term_width, app_vars,
                    last_run >>

\* ------------------------------------------------------- next_exercise

\* A next_exercise without its early return.
NextNeverPending == FALSE

\* Line 160: next_exercise returns early while the exercise is pending.
NextIsPending == done_status = Pending

\* next_exercise or check_all_exercises returns its ExercisesProgress to the
\* event loop, which matches on it: for a new pending exercise its next call
\* is run_current_exercise (the operation has returned, no run has started
\* yet and no guard is held), the end of the exercises ends the session, and
\* otherwise it goes back to recv on the event channel.
AfterProgress(o) ==
    CASE o.ret = "NewPending" ->
           /\ GoTo("new_pending", "idle", o, Tail(events))
           /\ UNCHANGED << show_hint, exercise_running >>
      [] o.ret = "AllDone" ->
           /\ EndSession("exited_ok", o)
           /\ UNCHANGED show_hint
      [] OTHER ->
           /\ GoTo("idle", "idle", o, Tail(events))
           /\ UNCHANGED << show_hint, exercise_running >>

\* The event loop calls run_current_exercise for the NewPending that
\* next_exercise or check_all_exercises returned to it. Events sent in the
\* meantime stay in the event channel.
RunNewPending ==
    /\ fg_pc = "new_pending"
    /\ UNCHANGED << typed, stdin_buf >>
    /\ StartRun(op, "idle", events)
    /\ UNCHANGED << output, done_status, manual_run, term_width, app_vars,
                    last_run >>

\* Lines 159-165, called by the event loop for a Next event. Past the early
\* return it is AppState::done_current_exercise: mark the current exercise
\* done and move to the next pending one; when none is left, the final check
\* of all exercises (fails: those it finds failing) decides between a new
\* pending exercise and the end.
NextExercise ==
    /\ Receives("Next")
    /\ UNCHANGED << typed, stdin_buf >>
    /\ LET o == NewOp("next_exercise")
       IN  IF NextIsPending
           THEN /\ AfterProgress([o EXCEPT !.ret = "CurrentPending"])
                /\ UNCHANGED app_vars
           ELSE LET marked == [done EXCEPT ![current_exercise_ind] = TRUE]
                    next == NextPending(marked)
                IN  \/ \* the tracker returns an I/O error
                       /\ FailWith(o, "done_current_exercise")
                       /\ done' = marked
                       /\ n_done' = Count(marked)
                       /\ UNCHANGED << current_exercise_ind, show_hint >>
                    \/ /\ next # {}
                       /\ AfterProgress([o EXCEPT !.ret = "NewPending"])
                       /\ current_exercise_ind' = Min(next)
                       /\ done' = marked
                       /\ n_done' = Count(marked)
                    \/ /\ next = {}
                       /\ \E fails \in SUBSET Exercises :
                            IF fails # {}
                            THEN /\ AfterProgress(
                                      [o EXCEPT !.ret = "NewPending"])
                                 /\ current_exercise_ind' = Min(fails)
                                 /\ done' = CheckAllDone(fails)
                                 /\ n_done' = Count(CheckAllDone(fails))
                            ELSE /\ AfterProgress(
                                      [o EXCEPT !.ret = "AllDone"])
                                 /\ UNCHANGED current_exercise_ind
                                 /\ done' = marked
                                 /\ n_done' = Count(marked)
    /\ UNCHANGED << output, done_status, manual_run, term_width, last_run >>

\* ----------------------------------------------------------- show_hint

\* A show_hint that redraws whatever the flag.
HintAlwaysHidden == TRUE

\* Line 274: show_hint acts only while the hint is hidden.
HintHidden == ~show_hint

\* Lines 273-280, called by the event loop for a Hint event.
ShowHint ==
    /\ Receives("Hint")
    /\ UNCHANGED << typed, stdin_buf >>
    /\ IF HintHidden
       THEN /\ show_hint' = TRUE
            /\ \E render_ok \in BOOLEAN :
                 IF render_ok
                 THEN /\ GoTo("idle", "idle",
                              Rendered(NewOp("show_hint"),
                                       FrameOf(output, TRUE, done_status,
                                               n_done, term_width,
                                               current_exercise_ind,
                                               manual_run)),
                              Tail(events))
                      /\ UNCHANGED exercise_running
                 ELSE FailWith(NewOp("show_hint"), "render")
       ELSE /\ GoTo("idle", "idle", NewOp("show_hint"), Tail(events))
            /\ UNCHANGED << show_hint, exercise_running >>
    /\ UNCHANGED << output, done_status, manual_run, term_width, app_vars,
                    last_run >>

\* ------------------------------------------------- check_all_exercises

\* A check_all_exercises that asks for no refresh when an exercise fails.
CheckAllReportsCurrentPending(first_fail) ==
    IF first_fail # {} THEN "CurrentPending" ELSE "AllDone"

\* A check_all_exercises that reports a new pending exercise whatever the
\* check found.
CheckAllAlwaysNewPending(first_fail) == "NewPending"

\* Lines 285-296: the ExercisesProgress check_all_exercises returns for the
\* first failing exercise the tracker reported ({} for None).
CheckAllProgress(first_fail) ==
    IF first_fail # {} THEN "NewPending" ELSE "AllDone"

\* A check_all_exercises that switches to the first failing exercise whatever
\* the done flag of the current one.
CheckAllAlwaysSwitches(flags) == TRUE

\* Line 287: the current exercise is left only if the tracker has it done;
\* flags are the done flags as the tracker's check left them.
CheckAllSwitches(flags) == flags[current_exercise_ind]

\* Lines 282-297, called by the event loop for a CheckAll event. fails are
\* the exercises the tracker's check finds failing; the tracker either
\* records the results in the done flags or leaves the flags alone (then only
\* the first failure matters, and fails is taken to be just that one). call_ok
\* is the outcome of the one tracker call that follows the check
\* (set_current_exercise_ind or render_final_message).
CheckAllExercises ==
    /\ Receives("CheckAll")
    /\ UNCHANGED << typed, stdin_buf >>
    /\ LET o == NewOp("check_all_exercises")
       IN  \/ \* the leading write or the check itself fails
              /\ FailWith(o, "check_all_exercises")
              /\ UNCHANGED << app_vars, show_hint >>
           \/ \E fails \in SUBSET Exercises, call_ok \in BOOLEAN :
              \E flags \in {CheckAllDone(fails)}
                           \cup (IF Cardinality(fails) <= 1 THEN {done}
                                 ELSE {}) :
                LET first_fail == IF fails = {} THEN {} ELSE {Min(fails)}
                    checked == [o EXCEPT !.checked = TRUE,
                                         !.first_fail = first_fail]
                    progress == [checked EXCEPT
                                   !.ret = CheckAllProgress(first_fail)]
                IN
                /\ IF first_fail # {}
                   THEN IF CheckAllSwitches(flags)
                        THEN IF call_ok
                             THEN /\ AfterProgress(progress)
                                  /\ current_exercise_ind' = Min(fails)
                             ELSE /\ FailWith(checked,
                                           "set_current_exercise_ind")
                                  /\ UNCHANGED << current_exercise_ind,
                                                  show_hint >>
                        ELSE /\ call_ok
                             /\ AfterProgress(progress)
                             /\ UNCHANGED current_exercise_ind
                   ELSE /\ IF call_ok
                           THEN AfterProgress(
                                  [progress EXCEPT !.final_message = TRUE])
                           ELSE /\ FailWith(checked, "render_final_message")
                                /\ UNCHANGED show_hint
                        /\ UNCHANGED current_exercise_ind
                /\ done' = flags
                /\ n_done' = Count(flags)
    /\ UNCHANGED << output, done_status, manual_run, term_width, last_run >>

\* --------------------------------------------------- update_term_width

\* An update_term_width that redraws on every resize notification.
WidthAlwaysChanged(width) == TRUE

\* Line 300: a resize acts only when the width differs from the stored one.
WidthChanged(width) == term_width # width

\* Lines 299-306, called by the event loop for a TerminalResize event.
UpdateTermWidth ==
    /\ Receives("TerminalResize")
    /\ UNCHANGED << typed, stdin_buf >>
    /\ LET width == Head(events).arg
       IN  IF WidthChanged(width)
           THEN /\ term_width' = width
                /\ \E render_ok \in BOOLEAN :
                     IF render_ok
                     THEN /\ GoTo("idle", "idle",
                                  Rendered(NewOp("update_term_width"),
                                           FrameOf(output, show_hint,
                                                   done_status, n_done, width,
                                                   current_exercise_ind,
                                                   manual_run)),
                                  Tail(events))
                          /\ UNCHANGED exercise_running
                     ELSE FailWith(NewOp("update_term_width"), "render")
           ELSE /\ GoTo("idle", "idle", NewOp("update_term_width"),
                        Tail(events))
                /\ UNCHANGED << term_width, exercise_running >>
    /\ UNCHANGED << output, show_hint, done_status, manual_run, app_vars,
                    last_run >>

\* ------------------------------------------------------ the event loop

\* A List or Quit event ends the session.
Leave ==
    /\ \/ Receives("List")
       \/ Receives("Quit")
    /\ EndSession("exited_ok", NewOp("leave"))
    /\ UNCHANGED << watch_vars, app_vars, typed, stdin_buf, last_run >>

\* ------------------------------------------- terminal_event_handler (bg)

\* The InputEvent a key press is turned into; "" for a key that is dropped.
KeyEvent(byte) ==
    CASE byte = "n" -> "Next"
      [] byte = "h" -> "Hint"
      [] byte = "l" -> "List"
      [] byte = "c" -> "CheckAll"
      [] byte = "x" -> "Reset"
      [] byte = "r" /\ manual_run -> "Run"
      [] byte = "q" -> "Quit"
      [] OTHER -> ""

\* The user presses a key while the background thread is not reading the
\* terminal (it waits in recv on the unpause channel). The key stays in the
\* input buffer of the terminal until a thread reads; keys that arrive
\* before the read of the confirmation loop has returned are taken by it
\* together.
KeyTyped ==
    /\ bg_pc = "recv"
    /\ fg_pc \notin {"exited_ok", "exited_err"}
    /\ Len(typed) < MaxTyped
    /\ \E byte \in TypedBytes :
         typed' = Append(typed, Key(byte, exercise_running))
    /\ UNCHANGED << watch_vars, app_vars, fg_pc, fg_ret, bg_pc,
                    exercise_running, events, stdin_buf, op, last_run >>

\* The background thread reads one key press from the terminal: the oldest
\* key still unread or, when there is none, the key the user presses now.
\* If the pause guard is held when the thread has read the key, the key is
\* dropped; the test of the flag and the send of the event are taken as one
\* step, and the send waits while the (really unbounded) event channel holds
\* MaxQueue events. After sending Reset the thread waits on the unpause
\* channel; after List or Quit it returns.
BgKey ==
    /\ bg_pc = "read"
    /\ typed' = IF typed # << >> THEN Tail(typed) ELSE typed
    /\ IF exercise_running
       THEN /\ op' = [op EXCEPT !.ignored = TRUE]
            /\ UNCHANGED << bg_pc, events >>
       ELSE \E input \in
                IF typed # << >>
                THEN {Event(KeyEvent(Head(typed).byte),
                            IF Head(typed).guarded THEN 1 ELSE 0)}
                ELSE {Event(KeyEvent(byte), 0) : byte \in Bytes} :
              IF input.type = ""
              THEN UNCHANGED << bg_pc, events, op >>
              ELSE /\ Len(events) < MaxQueue
                   /\ events' = Append(events, input)
                   /\ bg_pc' =
                        CASE input.type = "Reset" -> "recv"
                          [] input.type \in {"List", "Quit"} -> "exited"
                          [] OTHER -> "read"
                   /\ op' = op
    /\ UNCHANGED << watch_vars, app_vars, fg_pc, fg_ret, exercise_running,
                    stdin_buf, last_run >>

\* The background thread reads a resize of the terminal and sends it on.
BgResize ==
    /\ bg_pc = "read"
    /\ UNCHANGED << typed, stdin_buf >>
    /\ Len(events) < MaxQueue
    /\ \E width \in Widths :
         events' = Append(events, Event("TerminalResize", width))
    /\ UNCHANGED << watch_vars, app_vars, fg_pc, fg_ret, bg_pc,
                    exercise_running, op, last_run >>

\* The file watcher (automatic mode only) reports an edited exercise file.
FileChanged ==
    /\ ~manual_run
    /\ UNCHANGED << typed, stdin_buf >>
    /\ fg_pc \notin {"exited_ok", "exited_err"}
    /\ Len(events) < MaxQueue
    /\ \E ind \in Exercises :
         events' = Append(events, Event("FileChange", ind))
    /\ UNCHANGED << watch_vars, app_vars, fg_pc, fg_ret, bg_pc,
                    exercise_running, op, last_run >>

\* ------------------------------------------------------------ Spec

Next ==
    \/ RunCurrentExercise
    \/ RunFinish
    \/ ResetExercise
    \/ ResetRead
    \/ ResetSend
    \/ HandleFileChange
    \/ NextExercise
    \/ RunNewPending
    \/ ShowHint
    \/ CheckAllExercises
    \/ UpdateTermWidth
    \/ Leave
    \/ BgKey
    \/ BgResize
    \/ FileChanged

\* In Spec the user presses a key only while a thread reads the terminal, one
\* key for one read. Keys pressed while the background thread does not read
\* (KeyTyped), which can have been pressed while the pause guard was held and
\* which the buffered read of reset_exercise can take several at a time, are
\* followed in InputSpec.
Spec == Init /\ [][Next]_vars

\* The steps of the foreground thread that wait for nobody but the scheduler
\* and the collaborators it calls: the handlers of the event loop, the end of
\* a run, and the send of reset_exercise (enabled once the receiver waits).
\* The read of the confirmation loop waits for the user and is left out.
FgStep ==
    \/ RunCurrentExercise
    \/ RunFinish
    \/ ResetExercise
    \/ ResetSend
    \/ HandleFileChange
    \/ NextExercise
    \/ RunNewPending
    \/ ShowHint
    \/ CheckAllExercises
    \/ Leave

\* The system of the pause channel: every operation that pauses or resumes
\* the input thread or takes the pause guard, the keys and file changes that
\* trigger them, in a terminal that is not resized (a resize neither runs an
\* exercise nor touches the channel).
FairInit == Init /\ term_width = 1

FairNext ==
    \/ FgStep
    \/ ResetRead
    \/ BgKey
    \/ FileChanged

\* Fair scheduling of the foreground thread.
FairSpec == FairInit /\ [][FairNext]_vars /\ WF_vars(FgStep)

\* The system with a user who also presses keys while no thread reads the
\* terminal, again in a terminal that is not resized.
InputNext ==
    \/ FairNext
    \/ KeyTyped

InputSpec == FairInit /\ [][InputNext]_vars

\* ================================================================ claims

\* The foreground thread is inside the confirmation loop of reset_exercise
\* (lines 116-139), the run nested in it included.
InResetLoop ==
    \/ fg_pc = "reset_read"
    \/ fg_pc = "running" /\ fg_ret = "reset_send"

\* The step is one of the foreground thread, taking an event of this type.
FgTakes(type) ==
    /\ Receives(type)
    /\ events' = Tail(events) \/ fg_pc' # "idle"

\* C1: the background thread and the foreground thread are never both in a
\* blocking read of standard input; whenever reset_exercise is inside its
\* confirmation loop, the background thread is paused, waiting in recv on
\* the unpause channel.
C1_StdinMutualExclusion ==
    /\ ~(fg_pc = "reset_read" /\ bg_pc = "read")
    /\ InResetLoop => bg_pc = "recv"

\* C1 witness: the confirmation loop has read and discarded a byte while the
\* background thread waits.
C1_Witness ==
    /\ fg_pc = "reset_read"
    /\ op.discarded = 1
    /\ bg_pc = "recv"

\* C2: every reset_exercise that returns Ok has delivered exactly one resume
\* signal to the background thread that paused for it; none is delivered
\* before the return, a resume is only ever delivered to a paused thread, and
\* a paused thread always has a reset, queued or in progress, that will
\* resume it.
C2_OneResumePerPause ==
    /\ [](op.name = "reset_exercise" /\ fg_pc = "idle" => op.resumes = 1)
    /\ [](op.name = "reset_exercise" /\ fg_pc # "idle" => op.resumes = 0)
    /\ [](op.name # "reset_exercise" => op.resumes = 0)
    /\ [](bg_pc = "recv" =>
            \/ \E i \in 1 .. Len(events) : events[i].type = "Reset"
            \/ InResetLoop
            \/ fg_pc = "reset_send")
    /\ [][op'.resumes > op.resumes => bg_pc = "recv" /\ bg_pc' = "read"]_vars
    /\ [][bg_pc = "recv" /\ bg_pc' = "read" => op'.resumes = op.resumes + 1]_vars

\* C2 witness: a reset confirmed in manual-run mode, with its nested run and
\* pause guard, has returned after one resume.
C2_Witness ==
    /\ op.name = "reset_exercise"
    /\ fg_pc = "idle"
    /\ manual_run
    /\ op.reverts = 1
    /\ op.runs = 1
    /\ op.resumes = 1
    /\ bg_pc = "read"

\* C3: under fair scheduling the send at the end of reset_exercise always
\* completes, with the background thread back at reading input; a reset whose
\* confirmation loop runs the exercise (manual-run mode) gets there too or
\* ends the session with an error; and a paused background thread is never
\* left waiting for anything but the user's answer to the prompt. Stated as
\* recurrence: the foreground thread is never at the send for ever, and the
\* step that leaves the send is its completion, with the background thread
\* reading again; the run nested in the confirmation loop is never in
\* progress for ever, and it returns to the send or ends the session; and the
\* background thread is never for ever waiting in recv while the foreground
\* thread is anywhere but at the read of the user's answer.
C3_ResumeCompletes ==
    /\ []<>(fg_pc # "reset_send")
    /\ [][fg_pc = "reset_send" /\ fg_pc' # "reset_send" =>
            /\ fg_pc' = "idle"
            /\ bg_pc = "recv"
            /\ bg_pc' = "read"
            /\ op'.resumes = 1]_vars
    /\ []<>~(fg_pc = "running" /\ fg_ret = "reset_send")
    /\ [][fg_pc = "running" /\ fg_ret = "reset_send" /\ fg_pc' # "running" =>
            fg_pc' \in {"reset_send", "exited_err"}]_vars
    /\ []<>(bg_pc # "recv" \/ fg_pc = "reset_read")

\* C3 witness: in manual-run mode a confirmed reset has run the exercise,
\* released the guard and is at its send, the background thread waiting.
C3_Witness ==
    /\ fg_pc = "reset_send"
    /\ manual_run
    /\ op.runs = 1
    /\ op.renders = 1
    /\ ~exercise_running
    /\ bg_pc = "recv"

\* The InputEvents (key presses) waiting in the event channel q.
IsInput(e) == e.type \notin {"FileChange", "TerminalResize"}
Inputs(q) == SelectSeq(q, IsInput)

\* C4 as stated: from the moment run_current_exercise has taken its pause
\* guard until it drops it (the foreground thread is at "running"), the guard
\* flag is set, the background thread hands no input event to the event
\* channel, and the foreground thread does nothing but finish the run: no
\* event is taken, and no field of the coordinator or of the tracker changes
\* before the run ends; and a key pressed in that window is ignored, not
\* handled later: no input event that reaches the event channel, at any
\* time, comes from a key pressed while the guard was held.
C4_InputInertDuringRun ==
    /\ [](\A i \in DOMAIN events :
            IsInput(events[i]) => events[i].arg = 0)
    /\ [](fg_pc = "running" <=> exercise_running)
    /\ [][fg_pc = "running" =>
            /\ Inputs(events') = Inputs(events) \/ events' = << >>
            /\ op'.name = op.name
            /\ fg_pc' \in {"running", "idle", "reset_send", "exited_err"}
            /\ fg_pc' = "running" =>
                 /\ UNCHANGED << watch_vars, app_vars, fg_ret, bg_pc, last_run >>
                 /\ op'.renders = op.renders
                 /\ Len(events') >= Len(events)]_vars

\* C4, the state that refutes it: in manual-run mode a confirmed reset has
\* run the exercise and returned after its resume; the key h, pressed while
\* that run held the guard and the background thread waited in recv, has been
\* read by the resumed thread and is in the event channel as a Hint event.
C4_Witness ==
    /\ fg_pc = "idle"
    /\ manual_run
    /\ op.name = "reset_exercise"
    /\ op.runs = 1
    /\ op.resumes = 1
    /\ ~exercise_running
    /\ bg_pc = "read"
    /\ events = << Event("Hint", 1) >>

\* C5: after every run that returned to the event loop, DoneStatus is Pending
\* if and only if that run failed; a passing run gives DoneWithSolution(path)
\* when the tracker reported a solution path and DoneWithoutSolution when it
\* reported none. (A run whose collaborator returns an I/O error ends the
\* session instead of returning.)
C5_DoneStatusTracksLastRun ==
    last_run.ran /\ fg_pc # "exited_err" =>
        /\ done_status = Pending <=> ~last_run.success
        /\ last_run.success /\ last_run.path # NoPath =>
             done_status = DoneWithSolution(last_run.path)
        /\ last_run.success /\ last_run.path = NoPath =>
             done_status = DoneWithoutSolution

\* C5 witness: the run nested in a confirmed reset (manual-run mode) passed,
\* the tracker reported a solution, and reset_exercise has returned.
C5_Witness ==
    /\ fg_pc = "idle"
    /\ op.name = "reset_exercise"
    /\ op.runs = 1
    /\ last_run.ran
    /\ last_run.success
    /\ last_run.path = SolutionPath(current_exercise_ind)
    /\ done_status = DoneWithSolution(SolutionPath(current_exercise_ind))

\* C6: next_exercise called while DoneStatus is Pending changes neither the
\* tracker (current index, done flags, done count) nor the coordinator,
\* starts nothing, and returns CurrentPending.
C6_NextWhilePendingIsNoOp ==
    [][FgTakes("Next") /\ done_status = Pending =>
         /\ UNCHANGED << app_vars, watch_vars, fg_ret, bg_pc,
                         exercise_running, last_run >>
         /\ fg_pc' = "idle"
         /\ op' = [NewOp("next_exercise") EXCEPT !.ret = "CurrentPending"]]_vars

\* C6 witness: next_exercise has returned CurrentPending after a failed run.
C6_Witness ==
    /\ fg_pc = "idle"
    /\ op.name = "next_exercise"
    /\ op.ret = "CurrentPending"
    /\ done_status = Pending
    /\ last_run.ran
    /\ ~last_run.success

\* C7: show_hint leaves the flag set, whatever it was; called with the hint
\* hidden it redraws exactly once (or fails in that one redraw); called with
\* the hint shown it changes nothing and does not redraw.
C7_ShowHintIdempotent ==
    [][FgTakes("Hint") =>
         /\ show_hint'
         /\ UNCHANGED << output, done_status, manual_run, term_width,
                         app_vars, last_run >>
         /\ ~show_hint =>
              \/ fg_pc' = "idle" /\ op'.renders = 1
              \/ fg_pc' = "exited_err" /\ op'.renders = 0
         /\ show_hint =>
              /\ fg_pc' = "idle"
              /\ op'.renders = 0
              /\ UNCHANGED << fg_ret, bg_pc, exercise_running >>]_vars

\* C7 witness: show_hint was called with the hint already shown and returned
\* without a redraw.
C7_Witness ==
    /\ fg_pc = "idle"
    /\ op.name = "show_hint"
    /\ op.renders = 0
    /\ show_hint

\* C8: the confirmation loop takes only y, Y, n, N for an answer; a pass that
\* reads any other byte changes nothing (no new prompt, no redraw, no field)
\* and reads on; once the answer is n or N the reset is declined: no revert of
\* the file, no run, exactly one redraw, both when the loop is left and when
\* reset_exercise has returned.
C8_ResetDiscardsNonAnswers ==
    /\ [](op.answer \in {"", "y", "Y", "n", "N"})
    /\ [](op.answer \in {"n", "N"} /\ fg_pc # "exited_err" =>
            /\ fg_pc = "reset_send"
            /\ op.reverts = 0
            /\ op.runs = 0
            /\ op.renders = 1
            /\ op.prompts = 1)
    /\ [](op.name = "reset_exercise" /\ fg_pc = "idle" /\ op.reverts = 0 =>
            /\ op.runs = 0
            /\ op.renders = 1
            /\ op.prompts = 1)
    /\ [][fg_pc = "reset_read" /\ fg_pc' = "reset_read" =>
            /\ op' = op \/ op' = [op EXCEPT !.discarded = @ + 1]
            /\ UNCHANGED << watch_vars, app_vars, fg_ret, bg_pc,
                            exercise_running, last_run >>]_vars

\* C8 witness: two bytes that are no answer, then n: the loop is left with
\* one redraw and no revert.
C8_Witness ==
    /\ fg_pc = "reset_send"
    /\ op.discarded = 2
    /\ op.answer = "n"
    /\ op.renders = 1
    /\ op.reverts = 0

\* C9: once the first answer byte is y or Y the file is reverted exactly once,
\* and the exercise is run, once, if and only if manual-run mode is active;
\* in the other mode the reset returns without a run.
C9_ConfirmedResetRevertsOnce ==
    /\ op.reverts <= 1
    /\ op.answer \in {"y", "Y"} /\ fg_pc # "exited_err" =>
         /\ op.reverts = 1
         /\ op.runs = IF manual_run THEN 1 ELSE 0
         /\ IF manual_run
            THEN \/ fg_pc = "running" /\ fg_ret = "reset_send"
                 \/ fg_pc = "reset_send"
            ELSE fg_pc = "reset_send"
    /\ op.name = "reset_exercise" /\ fg_pc = "idle" /\ op.reverts = 1 =>
         /\ op.runs = IF manual_run THEN 1 ELSE 0
         /\ op.renders = op.runs

\* C9 witness: in manual-run mode the answer y has reverted the file and the
\* run it triggers is under way.
C9_Witness ==
    /\ fg_pc = "running"
    /\ fg_ret = "reset_send"
    /\ manual_run
    /\ op.answer = "y"
    /\ op.reverts = 1
    /\ op.runs = 1

\* C10: update_term_width stores the given width; it redraws (once) if and
\* only if that width differs from the stored one, so a second call with the
\* same value finds it stored and does not redraw; and no other step of the
\* system changes term_width.
C10_WidthRedrawIffChanged ==
    [][/\ FgTakes("TerminalResize") =>
            /\ term_width' = Head(events).arg
            /\ UNCHANGED << output, show_hint, done_status, manual_run,
                            app_vars, last_run >>
            /\ Head(events).arg # term_width =>
                 \/ fg_pc' = "idle" /\ op'.renders = 1
                 \/ fg_pc' = "exited_err" /\ op'.renders = 0
            /\ Head(events).arg = term_width =>
                 /\ fg_pc' = "idle"
                 /\ op'.renders = 0
       /\ term_width' # term_width => FgTakes("TerminalResize")]_vars

\* C10 witness: update_term_width was called with the width already stored
\* and returned without a redraw.
C10_Witness ==
    /\ fg_pc = "idle"
    /\ op.name = "update_term_width"
    /\ op.renders = 0
    /\ term_width = 2

\* C11: when the tracker's check of all exercises finds none failing,
\* check_all_exercises leaves the current exercise index (and every field of
\* the coordinator) as it was, whatever DoneStatus and the done flags are;
\* it renders the final completion message and returns AllDone, which ends
\* the session, unless rendering that message fails.
C11_CheckAllPassingIsAllDone ==
    [][FgTakes("CheckAll") /\ op'.checked /\ op'.first_fail = {} =>
         /\ current_exercise_ind' = current_exercise_ind
         /\ UNCHANGED watch_vars
         /\ op'.runs = 0
         /\ \/ /\ fg_pc' = "exited_ok"
               /\ op'.ret = "AllDone"
               /\ op'.final_message
            \/ /\ fg_pc' = "exited_err"
               /\ op'.ret = ""
               /\ ~op'.final_message]_vars

\* C11 witness: check_all_exercises has returned AllDone while the exercise
\* displayed was not the first one and its DoneStatus was not Pending.
C11_Witness ==
    /\ fg_pc = "exited_ok"
    /\ op.name = "check_all_exercises"
    /\ op.checked
    /\ op.first_fail = {}
    /\ op.ret = "AllDone"
    /\ op.final_message
    /\ current_exercise_ind = 1
    /\ done_status # Pending

\* C12 as stated: when the tracker's check of all exercises reports a failing
\* exercise, check_all_exercises returns NewPending (or the I/O error of the
\* tracker call it makes), and the current exercise index becomes the first
\* failing exercise if and only if the exercise displayed is marked done in
\* the tracker when check_all_exercises is called; when it is pending then
\* (for example right after a failed run of it) the index is left unchanged.
C12_CheckAllSwitchesIffDisplayedDone ==
    [][FgTakes("CheckAll") /\ op'.checked /\ op'.first_fail # {} =>
         /\ op'.ret = "NewPending" \/ fg_pc' = "exited_err"
         /\ op'.ret = "NewPending" =>
              /\ done[current_exercise_ind] =>
                   {current_exercise_ind'} = op'.first_fail
              /\ ~done[current_exercise_ind] =>
                   current_exercise_ind' = current_exercise_ind]_vars

\* C12, amended: when the tracker's check of all exercises reports a failing
\* exercise, check_all_exercises returns NewPending (or the I/O error of the
\* tracker call it makes), and the current exercise index becomes the first
\* failing exercise if and only if the tracker has the current exercise marked
\* done when its check is over, which is when line 287 reads the flag; when
\* it has it pending then, the index stays. So an exercise that was pending
\* at the call is left if the check marked it done, an exercise that was done
\* at the call is kept if the check marked it pending, and when the check
\* leaves the flag of the current exercise as it was, the flag at the call
\* decides. It returns with no run started, no guard taken and the
\* coordinator's fields as they were; the next step of the event loop is the
\* run of the current exercise, which leaves the index alone.
C12_CheckAllSwitchesOnlyFromDone ==
    /\ [][FgTakes("CheckAll") /\ op'.checked /\ op'.first_fail # {} =>
            /\ op'.ret = "NewPending" \/ fg_pc' = "exited_err"
            /\ op'.ret = "NewPending" =>
                 /\ done'[current_exercise_ind] =>
                      {current_exercise_ind'} = op'.first_fail
                 /\ ~done'[current_exercise_ind] =>
                      current_exercise_ind' = current_exercise_ind
                 /\ fg_pc' = "new_pending"
                 /\ op'.runs = 0
                 /\ UNCHANGED exercise_running
            /\ op'.ret = "NewPending"
                 /\ done'[current_exercise_ind] = done[current_exercise_ind] =>
                 /\ done[current_exercise_ind] =>
                      {current_exercise_ind'} = op'.first_fail
                 /\ ~done[current_exercise_ind] =>
                      current_exercise_ind' = current_exercise_ind
            /\ op'.ret = "" => current_exercise_ind' = current_exercise_ind
            /\ ~op'.final_message
            /\ UNCHANGED watch_vars]_vars
    /\ [][fg_pc = "new_pending" /\ fg_pc' # "new_pending" =>
            /\ op'.runs = op.runs + 1
            /\ fg_pc' = "running" \/ op'.err = "writeln"
            /\ UNCHANGED app_vars]_vars

\* C12 witness: the last run, of exercise 0, failed, so exercise 0 was
\* pending when check_all_exercises was called; the tracker's check found it
\* passing and marked it done, found exercise 1 failing, and
\* check_all_exercises made exercise 1 the current one and returned
\* NewPending, no run started yet.
C12_Witness ==
    /\ fg_pc = "new_pending"
    /\ op.name = "check_all_exercises"
    /\ op.ret = "NewPending"
    /\ op.first_fail = {1}
    /\ op.runs = 0
    /\ last_run.ran
    /\ last_run.ind = 0
    /\ ~last_run.success
    /\ done[0]
    /\ current_exercise_ind = 1

\* C13: handle_file_change for another exercise than the current one does
\* nothing: no run, no redraw, no pause guard taken, no field of the
\* coordinator or the tracker changed; for the current exercise it starts
\* one run of it (under the pause guard), and the whole operation runs once
\* and redraws once, at the end of that run.
C13_FileChangeOnlyForCurrent ==
    /\ [][FgTakes("FileChange") =>
            IF Head(events).arg # current_exercise_ind
            THEN /\ UNCHANGED << watch_vars, app_vars, fg_ret, bg_pc,
                                 exercise_running, last_run >>
                 /\ fg_pc' = "idle"
                 /\ op' = NewOp("handle_file_change")
            ELSE /\ op'.name = "handle_file_change"
                 /\ op'.runs = 1
                 /\ op'.renders = 0
                 /\ UNCHANGED << app_vars, output, done_status >>
                 /\ \/ fg_pc' = "running" /\ exercise_running'
                    \/ fg_pc' = "exited_err"]_vars
    /\ [](op.name = "handle_file_change" =>
            /\ op.runs <= 1
            /\ op.renders <= op.runs
            /\ fg_pc = "idle" => op.renders = op.runs)

\* C13 witness: a change of another exercise was handled while the current
\* one was done and its hint shown; nothing ran and nothing was redrawn.
C13_Witness ==
    /\ fg_pc = "idle"
    /\ op.name = "handle_file_change"
    /\ op.runs = 0
    /\ op.renders = 0
    /\ show_hint
    /\ done_status # Pending

\* The option token is in the prompt painted by the last redraw.
Offers(token) == \E i \in DOMAIN op.frame.prompt : op.frame.prompt[i] = token

\* C14: the prompt painted by a render is determined by the state the render
\* reads: next is offered iff the DoneStatus painted is not Pending, run iff
\* manual-run mode is active, hint iff the hint is not painted; list, check
\* all, reset and quit are always offered; and once the operation is back in
\* the event loop (or at its resume send) the frame is the one of the current
\* state.
C14_PromptIsFunctionOfState ==
    op.renders > 0 =>
        /\ Offers("next") <=> op.frame.banner # Pending
        /\ Offers("run") <=> manual_run
        /\ Offers("hint") <=> ~op.frame.hint
        /\ Offers("list") /\ Offers("check all")
        /\ Offers("reset") /\ Offers("quit")
        /\ Len(op.frame.prompt) =
             4 + (IF op.frame.banner # Pending THEN 1 ELSE 0)
               + (IF manual_run THEN 1 ELSE 0)
               + (IF ~op.frame.hint THEN 1 ELSE 0)
        /\ fg_pc \in {"idle", "reset_send"} => op.frame = Frame

\* C14 witness: a frame painted for a pending exercise with its hint shown,
\* outside manual-run mode: only the four fixed options are offered.
C14_Witness ==
    /\ op.renders > 0
    /\ fg_pc = "idle"
    /\ done_status = Pending
    /\ show_hint
    /\ ~manual_run
    /\ op.frame.prompt = << "list", "check all", "reset", "quit" >>

\* The step is the return of run_current_exercise after the execution of the
\* exercise completed (run_exercise returned Ok).
RunReturnsAfterExecution ==
    /\ fg_pc = "running"
    /\ fg_pc' # "running"
    /\ op'.err # "run_exercise"

\* C15 as stated: every run whose exercise execution completes, passing or
\* failing, calls render exactly once before run_current_exercise returns,
\* and that render paints the DoneStatus this run computed.
C15_RunAlwaysRedraws ==
    [][RunReturnsAfterExecution =>
         \/ /\ op'.renders = op.renders + 1
            /\ op'.frame.banner = done_status'
         \/ op'.err = "render"]_vars

\* C15, amended: every run whose exercise execution completes and whose
\* tracker call after it (current_solution_path on a pass, set_pending on a
\* failure) returns Ok calls render exactly once before it returns, passing
\* or failing, and that render paints the DoneStatus this run computed; when
\* the tracker call returns an error, run_current_exercise returns it with no
\* redraw and with DoneStatus as it was.
C15_RunRedrawsUnlessTrackerFails ==
    [][RunReturnsAfterExecution =>
         IF op'.err \in {"current_solution_path", "set_pending"}
         THEN /\ op'.renders = op.renders
              /\ fg_pc' = "exited_err"
              /\ done_status' = done_status
         ELSE /\ done_status' =
                   RunDoneStatus(last_run'.success, last_run'.path)
              /\ \/ /\ op'.err = ""
                    /\ fg_pc' = fg_ret
                    /\ op'.renders = op.renders + 1
                    /\ op'.frame.banner = done_status'
                    /\ op'.frame = Frame'
                 \/ /\ op'.err = "render"
                    /\ fg_pc' = "exited_err"
                    /\ op'.renders = op.renders]_vars

\* C15 witness: a failing run has returned after its one redraw, which
\* painted Pending.
C15_Witness ==
    /\ fg_pc = "idle"
    /\ op.name = "run_current_exercise"
    /\ op.runs = 1
    /\ op.renders = 1
    /\ last_run.ran
    /\ ~last_run.success
    /\ op.frame.banner = Pending

\* C16: the pause guard of run_current_exercise is released on every return
\* of the operation and only there: the flag is set only while the run is in
\* progress; it is set by the step that starts the run and cleared by the
\* step that returns from it, be it the normal return or the early return on
\* a failure of run_exercise, current_solution_path, set_pending or render;
\* a run whose status line cannot be written returns with the flag clear too.
C16_GuardReleasedOnEveryReturn ==
    /\ [](exercise_running => fg_pc = "running")
    /\ [](op.err = "writeln" => ~exercise_running)
    /\ [][fg_pc = "running" /\ fg_pc' # "running" =>
            /\ exercise_running
            /\ ~exercise_running'
            /\ op'.err \in {"", "run_exercise", "current_solution_path",
                            "set_pending", "render"}
            /\ op'.err = "" <=> fg_pc' # "exited_err"]_vars
    /\ [][exercise_running' # exercise_running =>
            \/ fg_pc # "running" /\ fg_pc' = "running" /\ exercise_running'
            \/ fg_pc = "running" /\ fg_pc' # "running" /\ exercise_running]_vars

\* C16 witness: run_current_exercise has returned the error of set_pending
\* and the flag of the pause guard is clear.
C16_Witness ==
    /\ fg_pc = "exited_err"
    /\ op.err = "set_pending"
    /\ op.runs = 1
    /\ ~exercise_running

\* C17 as stated: when reset_exercise fails after the background thread has
\* paused for it (the read of standard input, the revert of the file or the
\* nested run returns an error), the resume signal has still been sent.
C17_ResumeSentOnResetError ==
    /\ op.name = "reset_exercise"
    /\ \/ op.err \in {"read_exact", "reset_current_exercise"}
       \/ op.err # "" /\ op.runs = 1
    => op.resumes = 1

\* C18 as stated: when run_exercise returns an I/O error, run_current_exercise
\* still assigns DoneStatus for that run before it propagates the error.
C18_CaptureFailureKeepsTransition ==
    op.err = "run_exercise" =>
        /\ fg_pc = "exited_err"
        /\ op.status_updates = 1

\* The step starts a run of the current exercise: run_current_exercise is
\* entered, and either executes the exercise or fails to write its status
\* line.
StartsRun ==
    \/ fg_pc # "running" /\ fg_pc' = "running"
    \/ fg_pc # "exited_err" /\ op'.err = "writeln"

\* C19: the hint flag is false once a run has started, while it is in
\* progress and when it has returned, however the run was triggered; a step
\* that starts no run leaves the flag as it is, unless it is show_hint, which
\* sets it: so update_term_width, next_exercise, check_all_exercises, a file
\* change for another exercise, a declined reset and a reset confirmed
\* outside manual-run mode leave it unchanged (the run the event loop starts
\* after a NewPending of next_exercise or check_all_exercises clears it).
C19_HintFlagLifecycle ==
    /\ [](fg_pc = "running" => ~show_hint)
    /\ [][StartsRun => ~show_hint']_vars
    /\ [][fg_pc = "running" => ~show_hint']_vars
    /\ [][~StartsRun /\ ~FgTakes("Hint") => show_hint' = show_hint]_vars
    /\ [][FgTakes("Hint") => show_hint']_vars
    /\ [][\/ FgTakes("TerminalResize")
          \/ FgTakes("Next")
          \/ FgTakes("CheckAll")
          \/ FgTakes("FileChange")
               /\ Head(events).arg # current_exercise_ind
          \/ fg_pc = "reset_read" /\ ~manual_run
          \/ fg_pc = "reset_read" /\ op'.answer \in {"n", "N"}
          \/ fg_pc = "reset_send"
          => show_hint' = show_hint /\ ~StartsRun]_vars

\* C19 witness: a reset confirmed outside manual-run mode has returned and
\* the hint is still shown.
C19_Witness ==
    /\ fg_pc = "idle"
    /\ op.name = "reset_exercise"
    /\ op.reverts = 1
    /\ op.runs = 0
    /\ ~manual_run
    /\ show_hint

\* C20: whenever the event loop can call next_exercise or an operation can
\* render (the coordinator is in the event loop, or in reset_exercise outside
\* its nested run) and DoneStatus is not Pending, the most recent run was a
\* run of the exercise at the current index and it passed; every frame
\* painted with the done banner is one of that exercise; so next_exercise
\* marks the current exercise done only after such a run. Between the return
\* of NewPending and the run the event loop starts for it (where DoneStatus
\* is still that of the exercise left) nothing is rendered and no event is
\* taken.
C20_DoneStatusNeverStale ==
    /\ [](fg_pc = "new_pending" => op.renders = 0)
    /\ [][fg_pc = "new_pending" =>
            /\ fg_pc' \in {"new_pending", "running", "exited_err"}
            /\ Len(events') >= Len(events) \/ fg_pc' = "exited_err"
            /\ op'.renders = 0]_vars
    /\ [](fg_pc \in {"idle", "reset_read", "reset_send"}
            /\ done_status # Pending =>
               /\ last_run.ran
               /\ last_run.success
               /\ last_run.ind = current_exercise_ind)
    /\ [](op.renders > 0 /\ op.frame.banner # Pending =>
            /\ last_run.ran
            /\ last_run.success
            /\ last_run.ind = op.frame.exercise)
    /\ [][FgTakes("Next") /\ done' # done =>
            /\ last_run.ran
            /\ last_run.success
            /\ last_run.ind = current_exercise_ind
            /\ done_status # Pending]_vars

\* C20 witness: check_all_exercises moved the current exercise from 0, which
\* had passed, to the failing exercise 1; the run that followed failed and
\* DoneStatus is Pending again.
C20_Witness ==
    /\ fg_pc = "idle"
    /\ op.name = "check_all_exercises"
    /\ op.first_fail = {1}
    /\ current_exercise_ind = 1
    /\ done[0]
    /\ last_run.ran
    /\ last_run.ind = 1
    /\ ~last_run.success
    /\ done_status = Pending

====
